---- MODULE Spec2Model ----
(***************************************************************************)
(* A model of the DocumentManager of src/lib/documents.ts together with    *)
(* its only subscriber, onDocumentsUpdated of src/lib/server.ts.           *)
(*                                                                         *)
(* Every public operation and every client notification handler is one     *)
(* action.  The handlers are synchronous and run to completion, so an      *)
(* action computes the whole call tree of its handler: the events fired,   *)
(* the update report, the subscriber's access to the grammar, the rebuild  *)
(* (refreshGrammar) with the compiler's calls of the file-read callback,   *)
(* and the sweep with its nested close() calls.                            *)
(*                                                                         *)
(* The compiler (grammarkdown) and the file system are collaborators that  *)
(* are not part of the repository.  What the compiler reads during a       *)
(* rebuild and what the disk holds are inputs of each action (env).        *)
(***************************************************************************)
EXTENDS Integers, Sequences, FiniteSets, TLC

\* The canonical file names and the document texts of the model.
Files == {"a.grammar", "b.grammar"}
\* The locators the callers name them by.
Locators == Files \cup {"./a.grammar"}
Texts == {"X := 'a';", "X := 'b';"}

\* The value of an unset JavaScript field or of a failed read.
Undef == "undefined"

\* suspendUpdates is modelled up to this nesting depth.
MaxSuspended == 2
\* A change notification carries at most this many change records.
MaxChanges == 2
\* The content changes of one suspension are counted up to this number.
MaxBatch == 2

\* An optional value: <<>> is undefined, <<v>> is v.
None == <<>>
Some(v) == <<v>>
IsUndefined(o) == o = <<>>

VARIABLES
    documents,          \* _documents: file name -> GrammarDocument
    rootNames,          \* _rootNames: None or Some(set of file names)
    grammar,            \* _grammar: None or Some(compiled grammar)
    updateSuspended,    \* _updateSuspended
    updateRequested,    \* _updateRequested
    updating,           \* _updating
    call,               \* the operation that ran last, with its arguments
    pre,                \* the state when that operation started
    trace,              \* what that operation did, in order
    dependency,         \* history: the files registered only because the
                        \* compiler read them during a rebuild
    batch,              \* history: the content-changing client notifications
                        \* of the current suspension (how many, the last one)
    halfClosed          \* history: the files whose entity was open on both
                        \* sides and has had one side closed since

vars == <<documents, rootNames, grammar, updateSuspended, updateRequested,
          updating, call, pre, trace, dependency, batch, halfClosed>>

\* class GrammarDocument after its constructor: every field but filename unset.
NewDocument ==
    [text |-> Undef, isOpenOnClient |-> FALSE, isOpenOnServer |-> FALSE,
     marked |-> FALSE]

\* What the collaborators do during one operation: the files the compiler
\* reaches through the imports of its roots during a rebuild (imports),
\* what the native host's readFile returns for each file (disk), and
\* whether the compiler raises a fault once it has read them (fault).
Env(imports, disk, fault) ==
    [imports |-> imports, disk |-> disk, fault |-> fault]
NoDisk == [f \in Files |-> Undef]

\* One step of an operation: an event fired or an internal call.
Step(k, f, x) == [k |-> k, f |-> f, x |-> x]
Log(s, k, f, x) == [s EXCEPT !.trace = Append(@, Step(k, f, x))]

\* An exception is propagating: the last thing that happened is a fault of
\* the compiler, or a dereference of undefined, and nothing has caught it.
Throwing(s) ==
    /\ Len(s.trace) > 0
    /\ s.trace[Len(s.trace)].k \in
          {"check:fault", "refreshGrammar:fault", "TypeError"}

\* Emitter.fire of a document event.
fire(s, event, filename) == Log(s, event, filename, {})

\* normalizeFilename: the native host resolves and normalizes a locator to
\* the canonical file name; two spellings of a.grammar stand for the many.
normalizeFilename(id) ==
    IF id = "./a.grammar" THEN "a.grammar" ELSE id

has(s, id) == normalizeFilename(id) \in DOMAIN s.documents

createDocument(s, filename) ==
    Log([s EXCEPT !.documents = (filename :> NewDocument) @@ @],
        "createDocument", filename, {})

closeDocument(s, filename) ==
    Log([s EXCEPT !.documents = [g \in (DOMAIN @) \ {filename} |-> @[g]]],
        "closeDocument", filename, {})

\* document.text = text; the step is recorded when the text differs.
setText(s, filename, text) ==
    IF s.documents[filename].text # text
    THEN Log([s EXCEPT !.documents[filename].text = text],
             "text", filename, {})
    ELSE s

openDocumentOnClient(s, filename) ==
    [s EXCEPT !.documents[filename].isOpenOnClient = TRUE]

\* openDocumentOnServer that leaves the flag as it is.
openDocumentOnServer_Nothing(s, filename) == s

openDocumentOnServer(s, filename) ==
    [s EXCEPT !.documents[filename].isOpenOnServer = TRUE]

\* closeDocumentOnClient without the check of the other flag: the entity is
\* never removed.
closeDocumentOnClient_NoRemove(s, filename) ==
    IF s.documents[filename].isOpenOnClient
    THEN [state |-> [s EXCEPT !.documents[filename].isOpenOnClient = FALSE],
          result |-> FALSE]
    ELSE [state |-> s, result |-> FALSE]

\* Returns the new state and the method's result (whether it removed the
\* document from the registry).
closeDocumentOnClient(s, filename) ==
    LET document == s.documents[filename] IN
    IF document.isOpenOnClient
    THEN LET s1 == [s EXCEPT !.documents[filename].isOpenOnClient = FALSE] IN
         IF document.isOpenOnServer
         THEN [state |-> s1, result |-> FALSE]
         ELSE [state |-> closeDocument(s1, filename), result |-> TRUE]
    ELSE [state |-> s, result |-> FALSE]

\* closeDocumentOnServer that removes the entity whatever the client flag.
closeDocumentOnServer_Always(s, filename) ==
    IF s.documents[filename].isOpenOnServer
    THEN [state |-> closeDocument(
                        [s EXCEPT !.documents[filename].isOpenOnServer = FALSE],
                        filename),
          result |-> TRUE]
    ELSE [state |-> s, result |-> FALSE]

\* closeDocumentOnServer that removes the entity but reports no removal.
closeDocumentOnServer_ReturnsFalse(s, filename) ==
    LET document == s.documents[filename] IN
    IF document.isOpenOnServer
    THEN LET s1 == [s EXCEPT !.documents[filename].isOpenOnServer = FALSE] IN
         [state |-> IF ~document.isOpenOnClient
                    THEN closeDocument(s1, filename) ELSE s1,
          result |-> FALSE]
    ELSE [state |-> s, result |-> FALSE]

closeDocumentOnServer(s, filename) ==
    LET document == s.documents[filename] IN
    IF document.isOpenOnServer
    THEN LET s1 == [s EXCEPT !.documents[filename].isOpenOnServer = FALSE] IN
         IF ~document.isOpenOnClient
         THEN [state |-> closeDocument(s1, filename), result |-> TRUE]
         ELSE [state |-> s1, result |-> FALSE]
    ELSE [state |-> s, result |-> FALSE]

invalidateGrammar(s) ==
    Log([s EXCEPT !.rootNames = None, !.grammar = None],
        "invalidateGrammar", "-", {})

\* The file-read callback the compiler's host is built with.
readFile(s, filename, env) ==
    IF filename \notin DOMAIN s.documents
    THEN LET text == env.disk[filename]
             s0 == Log(s, "nativeHost.readFile", filename, {})
         IN
         IF text # Undef
         THEN LET s1 == createDocument(s0, filename)
                  s2 == setText(s1, filename, text)
                  s3 == openDocumentOnServer(s2, filename)
              IN  [s3 EXCEPT !.documents[filename].marked = TRUE]
         ELSE s0
    ELSE [s EXCEPT !.documents[filename].marked = TRUE]

\* The compiler calls the file-read callback for the files it needs, one
\* after the other.
RECURSIVE readAll(_, _, _)
readAll(s, files, env) ==
    IF files = {} THEN s
    ELSE LET f == CHOOSE x \in files : TRUE IN
         readAll(readFile(s, f, env), files \ {f}, env)

\* Grammar.check() of a grammar built from rootNames: the compiler reads its
\* roots and what they import; without a root it reads nothing.  It returns
\* (check:end) or raises a fault (check:fault).  The steps record the files
\* it reads and the registry it leaves behind.
checkEnd(s, fault) ==
    Log(s, IF fault THEN "check:fault" ELSE "check:end", "-",
        DOMAIN s.documents)
check(s, roots, env) ==
    LET files == IF roots = {} THEN {} ELSE roots \cup env.imports IN
    checkEnd(readAll(Log(s, "check", "-", files), files, env),
             env.fault /\ files # {})

RECURSIVE close(_, _, _)

\* A sweep that closes nothing.
sweep_Nothing(s, snapshot, files, env) == s

\* A sweep that closes every document that is not client-open, read by the
\* compiler or not.
RECURSIVE sweep_IgnoresMarked(_, _, _, _)
sweep_IgnoresMarked(s, snapshot, files, env) ==
    IF files = {} THEN s
    ELSE LET f == CHOOSE x \in files : TRUE
             document == snapshot[f]
         IN  sweep_IgnoresMarked(
                 IF ~document.isOpenOnClient
                 THEN close(Log(s, "sweep:close", f, {}), f, env)
                 ELSE s,
                 snapshot, files \ {f}, env)

\* The second loop of refreshGrammar over a snapshot of the registry.
RECURSIVE sweep(_, _, _, _)
sweep(s, snapshot, files, env) ==
    IF files = {} THEN s
    ELSE LET f == CHOOSE x \in files : TRUE
             document == snapshot[f]
         IN  sweep(IF ~document.marked /\ ~document.isOpenOnClient
                   THEN close(Log(s, "sweep:close", f, {}), f, env)
                   ELSE s,
                   snapshot, files \ {f}, env)

\* The sweep of refreshGrammar, skipped when check() raised a fault.
sweepAll(s, env) ==
    IF Throwing(s) THEN s
    ELSE sweep(s, s.documents, DOMAIN s.documents, env)

\* refreshGrammar's finally block that restores _updating only when the try
\* block ends without a fault.
refreshEnd_NoFinally(s, wasUpdating) ==
    IF Throwing(s) THEN Log(s, "refreshGrammar:fault", "-", {})
    ELSE Log([s EXCEPT !.updating = wasUpdating], "refreshGrammar:end", "-", {})

\* refreshGrammar's finally block, on return and on a fault.
refreshEnd(s, wasUpdating) ==
    Log([s EXCEPT !.updating = wasUpdating],
        IF Throwing(s) THEN "refreshGrammar:fault" ELSE "refreshGrammar:end",
        "-", {})

refreshGrammar(s, env) ==
    LET wasUpdating == s.updating
        roots == {f \in DOMAIN s.documents : s.documents[f].isOpenOnClient}
        s1 == [s EXCEPT !.updating = TRUE,
                        !.documents = [f \in DOMAIN s.documents |->
                            [s.documents[f] EXCEPT
                                !.marked = s.documents[f].isOpenOnClient]]]
        s2 == Log(s1, "newGrammar",
                  IF IsUndefined(s.grammar) THEN "-" ELSE "oldGrammar", roots)
        s3 == [s2 EXCEPT !.rootNames = Some(roots),
                         !.grammar = Some([rootNames |-> roots])]
    IN  refreshEnd(sweepAll(check(s3, roots, env), env), wasUpdating)

\* The getters rootNames, grammar and sourceFiles up to their return.
getRootNames(s, env) ==
    IF IsUndefined(s.rootNames) THEN refreshGrammar(s, env) ELSE s

getGrammar(s, env) ==
    IF IsUndefined(s.grammar) THEN refreshGrammar(s, env) ELSE s

\* A member access on the grammar the getter returned: a TypeError when it
\* is undefined; not reached when the getter raised a fault.
dereference(s) ==
    IF Throwing(s) THEN s
    ELSE IF IsUndefined(s.grammar) THEN Log(s, "TypeError", "-", {})
    ELSE s

\* sourceFiles dereferences _grammar after the refresh.
getSourceFiles(s, env) == dereference(getGrammar(s, env))

\* server.ts: the subscriber of onDidUpdate.  It reads documents.grammar
\* and calls check() on it; the later getSourceFile calls find the grammar
\* built and change nothing.
onDocumentsUpdated(s, env) == dereference(getGrammar(s, env))

\* reportUpdate without the reentrancy guard.
reportUpdate_NoGuard(s, env) ==
    LET s1 == [s EXCEPT !.updating = TRUE, !.updateRequested = FALSE]
        s2 == onDocumentsUpdated(fire(s1, "didUpdate", "-"), env)
    IN  Log([s2 EXCEPT !.updating = FALSE], "didUpdate:end", "-", {})

reportUpdate(s, env) ==
    IF ~s.updating
    THEN LET s1 == [s EXCEPT !.updating = TRUE, !.updateRequested = FALSE]
             s2 == onDocumentsUpdated(fire(s1, "didUpdate", "-"), env)
         IN  Log([s2 EXCEPT !.updating = FALSE], "didUpdate:end", "-", {})
    ELSE s

\* requestUpdate that reports whatever the suspension counter.
requestUpdate_IgnoresSuspension(s, env) ==
    reportUpdate(Log(s, "requestUpdate", "-", {}), env)

requestUpdate(s, env) ==
    LET s1 == Log(s, "requestUpdate", "-", {}) IN
    IF s1.updateSuspended > 0
    THEN [s1 EXCEPT !.updateRequested = TRUE]
    ELSE reportUpdate(s1, env)

close(s, id, env) ==
    LET filename == normalizeFilename(id) IN
    IF filename \in DOMAIN s.documents
    THEN LET document == s.documents[filename]
             wasOpenOnServer == document.isOpenOnServer
             r == closeDocumentOnServer(s, filename)
             s1 == IF r.result THEN invalidateGrammar(r.state) ELSE r.state
             s2 == IF ~wasOpenOnServer
                   THEN fire(s1, "didCloseOnServer", filename) ELSE s1
         IN  IF ~document.isOpenOnClient
             THEN requestUpdate(fire(s2, "didClose", filename), env)
             ELSE s2
    ELSE s

\* open that discards the cache whether or not the text differs.
open_AlwaysInvalidates(s, id, env) ==
    LET filename == normalizeFilename(id)
        text == env.disk[filename]
    IN
    IF text # Undef
    THEN LET created == filename \notin DOMAIN s.documents
             s0 == IF created THEN createDocument(s, filename) ELSE s
             document == s0.documents[filename]
             changed == document.text # text
             wasOpenOnServer == document.isOpenOnServer
             s1 == setText(s0, filename, text)
             s2 == openDocumentOnServer(s1, filename)
             s3 == invalidateGrammar(s2)
             s4 == IF created THEN fire(s3, "didOpen", filename) ELSE s3
             s5 == IF ~wasOpenOnServer
                   THEN fire(s4, "didCloseOnServer", filename) ELSE s4
         IN  IF changed
             THEN requestUpdate(fire(s5, "didChangeContent", filename), env)
             ELSE s5
    ELSE Log(s, "open:undefined", filename, {})

\* open that creates the entity before it knows the file is readable.
open_CreatesFirst(s, id, env) ==
    LET filename == normalizeFilename(id)
        text == env.disk[filename]
        created == filename \notin DOMAIN s.documents
        s0 == IF created THEN createDocument(s, filename) ELSE s
    IN
    IF text # Undef
    THEN LET document == s0.documents[filename]
             changed == document.text # text
             wasOpenOnServer == document.isOpenOnServer
             s1 == setText(s0, filename, text)
             s2 == openDocumentOnServer(s1, filename)
             s3 == IF changed THEN invalidateGrammar(s2) ELSE s2
             s4 == IF created THEN fire(s3, "didOpen", filename) ELSE s3
             s5 == IF ~wasOpenOnServer
                   THEN fire(s4, "didCloseOnServer", filename) ELSE s4
         IN  IF changed
             THEN requestUpdate(fire(s5, "didChangeContent", filename), env)
             ELSE s5
    ELSE Log(s0, "open:undefined", filename, {})

\* open(id), given what the native host's readFile returned; the step
\* open:undefined records the return of undefined.
open(s, id, env) ==
    LET filename == normalizeFilename(id)
        text == env.disk[filename]
    IN
    IF text # Undef
    THEN LET created == filename \notin DOMAIN s.documents
             s0 == IF created THEN createDocument(s, filename) ELSE s
             document == s0.documents[filename]
             changed == document.text # text
             wasOpenOnServer == document.isOpenOnServer
             s1 == setText(s0, filename, text)
             s2 == openDocumentOnServer(s1, filename)
             s3 == IF changed THEN invalidateGrammar(s2) ELSE s2
             s4 == IF created THEN fire(s3, "didOpen", filename) ELSE s3
             s5 == IF ~wasOpenOnServer
                   THEN fire(s4, "didCloseOnServer", filename) ELSE s4
         IN  IF changed
             THEN requestUpdate(fire(s5, "didChangeContent", filename), env)
             ELSE s5
    ELSE Log(s, "open:undefined", filename, {})

\* The client handlers' body with the update requested before the events.
clientText_UpdateFirst(s, filename, text, env) ==
    LET created == filename \notin DOMAIN s.documents
        s0 == IF created THEN createDocument(s, filename) ELSE s
        document == s0.documents[filename]
        changed == document.text # text
        wasOpenOnClient == document.isOpenOnClient
        s1 == setText(s0, filename, text)
        s2 == openDocumentOnClient(s1, filename)
        s3 == IF changed THEN requestUpdate(invalidateGrammar(s2), env) ELSE s2
        s4 == IF created THEN fire(s3, "didOpen", filename) ELSE s3
        s5 == IF ~wasOpenOnClient
              THEN fire(s4, "didOpenOnClient", filename) ELSE s4
    IN  IF changed THEN fire(s5, "didChangeContent", filename) ELSE s5

\* The body shared, line for line, by handleOpenClientDocument and
\* handleUpdateClientDocument once the text is known.
clientText(s, filename, text, env) ==
    LET created == filename \notin DOMAIN s.documents
        s0 == IF created THEN createDocument(s, filename) ELSE s
        document == s0.documents[filename]
        changed == document.text # text
        wasOpenOnClient == document.isOpenOnClient
        s1 == setText(s0, filename, text)
        s2 == openDocumentOnClient(s1, filename)
        s3 == IF changed THEN invalidateGrammar(s2) ELSE s2
        s4 == IF created THEN fire(s3, "didOpen", filename) ELSE s3
        s5 == IF ~wasOpenOnClient
              THEN fire(s4, "didOpenOnClient", filename) ELSE s4
    IN  IF changed
        THEN requestUpdate(fire(s5, "didChangeContent", filename), env)
        ELSE s5

handleOpenClientDocument(s, uri, text, env) ==
    clientText(s, normalizeFilename(uri), text, env)

\* handleUpdateClientDocument that ignores a locator it has no entity for.
handleUpdateClientDocument_IgnoresUnknown(s, uri, contentChanges, env) ==
    IF Len(contentChanges) > 0 /\ normalizeFilename(uri) \in DOMAIN s.documents
    THEN clientText(s, normalizeFilename(uri),
                    contentChanges[Len(contentChanges)], env)
    ELSE s

\* handleUpdateClientDocument that applies the first change record.
handleUpdateClientDocument_First(s, uri, contentChanges, env) ==
    IF Len(contentChanges) > 0
    THEN clientText(s, normalizeFilename(uri), contentChanges[1], env)
    ELSE s

handleUpdateClientDocument(s, uri, contentChanges, env) ==
    IF Len(contentChanges) > 0
    THEN clientText(s, normalizeFilename(uri),
                    contentChanges[Len(contentChanges)], env)
    ELSE s

handleCloseClientDocument(s, uri, env) ==
    LET filename == normalizeFilename(uri) IN
    IF filename \in DOMAIN s.documents
    THEN LET document == s.documents[filename]
             wasOpenOnClient == document.isOpenOnClient
             r == closeDocumentOnClient(s, filename)
             s1 == IF r.result THEN invalidateGrammar(r.state) ELSE r.state
             s2 == IF ~wasOpenOnClient
                   THEN fire(s1, "didCloseOnClient", filename) ELSE s1
         IN  IF ~document.isOpenOnServer
             THEN requestUpdate(fire(s2, "didClose", filename), env)
             ELSE s2
    ELSE s

suspendUpdates(s) ==
    [s EXCEPT !.updateSuspended = @ + 1]

\* resumeUpdates that reports a pending update at every level of nesting.
resumeUpdates_Eager(s, env) ==
    IF s.updateSuspended > 0
    THEN LET s1 == [s EXCEPT !.updateSuspended = @ - 1] IN
         IF s1.updateRequested THEN reportUpdate(s1, env) ELSE s1
    ELSE s

resumeUpdates(s, env) ==
    IF s.updateSuspended > 0
    THEN LET s1 == [s EXCEPT !.updateSuspended = @ - 1] IN
         IF s1.updateSuspended = 0 /\ s1.updateRequested
         THEN reportUpdate(s1, env)
         ELSE s1
    ELSE s

-----------------------------------------------------------------------------
\* The state machine.

\* The manager as one record, with an empty trace: what an operation starts on.
Manager ==
    [documents |-> documents, rootNames |-> rootNames, grammar |-> grammar,
     updateSuspended |-> updateSuspended, updateRequested |-> updateRequested,
     updating |-> updating, trace |-> <<>>]

Call(op, id, text, changes) ==
    [op |-> op, id |-> id, text |-> text, changes |-> changes]

\* No operation is in progress: the last one has returned to its caller.
Idle == Call("idle", "-", Undef, <<>>)

\* The state an operation starts from.
Snapshot ==
    [documents |-> documents, rootNames |-> rootNames, grammar |-> grammar,
     updateSuspended |-> updateSuspended, updateRequested |-> updateRequested,
     updating |-> updating, dependency |-> dependency, batch |-> batch,
     halfClosed |-> halfClosed]

\* The steps of kind k in a trace, and whether there is one.
Steps(tr, k) == {i \in 1..Len(tr) : tr[i].k = k}
Did(tr, k) == Steps(tr, k) # {}
DidTo(tr, k, f) == \E i \in Steps(tr, k) : tr[i].f = f

\* Step i is taken by the compiler's file-read callback, during check().
InCheck(tr, i) ==
    \E c \in Steps(tr, "check") :
        c < i /\ \A e \in Steps(tr, "check:end") \cup Steps(tr, "check:fault") :
                    e < c \/ e > i

\* History: the files whose entity the file-read callback created and that
\* no open and no client notification has named since.
Dependencies(c, s) ==
    LET named == IF c.op \in {"open", "handleOpenClientDocument",
                              "handleUpdateClientDocument"}
                 THEN {normalizeFilename(c.id)} ELSE {}
        read == {s.trace[i].f : i \in {n \in Steps(s.trace, "createDocument") :
                                          InCheck(s.trace, n)}}
    IN  ((dependency \ named) \cup read) \cap DOMAIN s.documents

\* History: the content-changing client notifications since updates were
\* suspended: their number (up to MaxBatch) and the file and text of the
\* last one; the file is "-" once another operation named it.
NoBatch == [n |-> 0, f |-> "-", text |-> Undef]
Batch(c, s) ==
    LET f == normalizeFilename(c.id) IN
    IF s.updateSuspended = 0 THEN NoBatch
    ELSE IF /\ c.op \in {"handleOpenClientDocument",
                          "handleUpdateClientDocument"}
            /\ Did(s.trace, "didChangeContent")
         THEN [n |-> IF batch.n < MaxBatch THEN batch.n + 1 ELSE MaxBatch,
               f |-> f, text |-> s.documents[f].text]
         ELSE IF c.op \in {"open", "close", "handleCloseClientDocument"}
                 /\ f = batch.f
              THEN [batch EXCEPT !.f = "-", !.text = Undef]
              ELSE batch

\* History: the files whose entity was open on the client and on the server
\* when one side of it was closed, and that no operation has named since.
HalfClosed(c, s) ==
    LET f == normalizeFilename(c.id)
        both == /\ f \in DOMAIN documents
                /\ documents[f].isOpenOnClient
                /\ documents[f].isOpenOnServer
    IN  IF c.op \in {"close", "handleCloseClientDocument"} /\ both
        THEN (halfClosed \cup {f}) \cap DOMAIN s.documents
        ELSE (halfClosed \ {f}) \cap DOMAIN s.documents

\* An operation ran from the current state and ended in s.
Ran(c, s) ==
    /\ call' = c
    /\ pre' = Snapshot
    /\ documents' = s.documents
    /\ rootNames' = s.rootNames
    /\ grammar' = s.grammar
    /\ updateSuspended' = s.updateSuspended
    /\ updateRequested' = s.updateRequested
    /\ updating' = s.updating
    /\ trace' = s.trace
    /\ dependency' = Dependencies(c, s)
    /\ batch' = Batch(c, s)
    /\ halfClosed' = HalfClosed(c, s)

\* The change lists a notification can carry.
ChangeLists ==
    UNION {[1..n -> Texts] : n \in 0..MaxChanges}

\* The inputs of an operation Op are enumerated as far as it consumes them:
\* what the compiler reads and whether it faults only if Op rebuilds the
\* grammar with a root to compile, and the disk
\* content of a file only if the native host is asked for it (or the caller
\* pinned it).  An input that is never consumed is left at its default.
Rebuilds(s) ==
    \E i \in 1..Len(s.trace) : s.trace[i].k = "check" /\ s.trace[i].x # {}
Consulted(s) ==
    {s.trace[i].f : i \in {n \in 1..Len(s.trace) :
                              s.trace[n].k = "nativeHost.readFile"}}
DisksOf(s, pinned) ==
    {d \in [Files -> Texts \cup {Undef}] :
        \A f \in Files : d[f] # Undef => f \in Consulted(s) \ pinned}

Run(c, Op(_), pinned) ==
    /\ call = Idle
    /\ \E s0 \in {Op(Env({}, NoDisk, FALSE))} :
        IF ~Rebuilds(s0) THEN Ran(c, s0)
        ELSE \E imports \in SUBSET Files, fault \in BOOLEAN :
                \E s1 \in {Op(Env(imports, NoDisk, fault))} :
                    \E disk \in DisksOf(s1, pinned) :
                        IF disk = NoDisk THEN Ran(c, s1)
                        ELSE \E s2 \in {Op(Env(imports, disk, fault))} :
                                Ran(c, s2)

Init ==
    /\ documents = <<>>
    /\ rootNames = None
    /\ grammar = None
    /\ updateSuspended = 0
    /\ updateRequested = FALSE
    /\ updating = FALSE
    /\ call = Idle
    /\ pre = [documents |-> <<>>, rootNames |-> None, grammar |-> None,
              updateSuspended |-> 0, updateRequested |-> FALSE,
              updating |-> FALSE, dependency |-> {}, batch |-> NoBatch,
              halfClosed |-> {}]
    /\ trace = <<>>
    /\ dependency = {}
    /\ batch = NoBatch
    /\ halfClosed = {}

\* open(id); text is what the native host's readFile returns for id.
Open ==
    \E id \in Locators, text \in Texts \cup {Undef} :
        Run(Call("open", id, text, <<>>),
            LAMBDA env : open(Manager, id,
                Env(env.imports,
                    [env.disk EXCEPT ![normalizeFilename(id)] = text],
                    env.fault)),
            {normalizeFilename(id)})

Close ==
    \E id \in Locators :
        Run(Call("close", id, Undef, <<>>),
            LAMBDA env : close(Manager, id, env), {})

HandleOpenClientDocument ==
    \E uri \in Locators, text \in Texts :
        Run(Call("handleOpenClientDocument", uri, text, <<>>),
            LAMBDA env : handleOpenClientDocument(Manager, uri, text, env), {})

HandleUpdateClientDocument ==
    \E uri \in Locators, contentChanges \in ChangeLists :
        Run(Call("handleUpdateClientDocument", uri, Undef, contentChanges),
            LAMBDA env : handleUpdateClientDocument(Manager, uri,
                                                    contentChanges, env), {})

HandleCloseClientDocument ==
    \E uri \in Locators :
        Run(Call("handleCloseClientDocument", uri, Undef, <<>>),
            LAMBDA env : handleCloseClientDocument(Manager, uri, env), {})

SuspendUpdates ==
    /\ call = Idle
    /\ updateSuspended < MaxSuspended
    /\ Ran(Call("suspendUpdates", "-", Undef, <<>>), suspendUpdates(Manager))

ResumeUpdates ==
    Run(Call("resumeUpdates", "-", Undef, <<>>),
        LAMBDA env : resumeUpdates(Manager, env), {})

GetRootNames ==
    Run(Call("rootNames", "-", Undef, <<>>),
        LAMBDA env : getRootNames(Manager, env), {})

GetGrammar ==
    Run(Call("grammar", "-", Undef, <<>>),
        LAMBDA env : getGrammar(Manager, env), {})

GetSourceFiles ==
    Run(Call("sourceFiles", "-", Undef, <<>>),
        LAMBDA env : getSourceFiles(Manager, env), {})

\* The operation has returned: the next one starts with a fresh record.
Return ==
    /\ call # Idle
    /\ call' = Idle
    /\ trace' = <<>>
    /\ pre' = Snapshot
    /\ UNCHANGED <<documents, rootNames, grammar, updateSuspended,
                   updateRequested, updating, dependency, batch, halfClosed>>

Next ==
    \/ Open
    \/ Close
    \/ HandleOpenClientDocument
    \/ HandleUpdateClientDocument
    \/ HandleCloseClientDocument
    \/ SuspendUpdates
    \/ ResumeUpdates
    \/ GetRootNames
    \/ GetGrammar
    \/ GetSourceFiles
    \/ Return

Spec == Init /\ [][Next]_vars

-----------------------------------------------------------------------------
\* Vocabulary of the properties.  They are stated on the state an operation
\* leaves behind: call names it, pre is the state it started from, trace is
\* what it did.

Target == normalizeFilename(call.id)
Registered == DOMAIN documents
ClientOpen == {f \in DOMAIN documents : documents[f].isOpenOnClient}
WasRegistered(f) == f \in DOMAIN pre.documents
WasOpenOnClient(f) == WasRegistered(f) /\ pre.documents[f].isOpenOnClient
WasOpenOnServer(f) == WasRegistered(f) /\ pre.documents[f].isOpenOnServer
Count(k) == Cardinality(Steps(trace, k))

EventKinds ==
    {"didOpen", "didOpenOnClient", "didOpenOnServer", "didChangeContent",
     "didClose", "didCloseOnClient", "didCloseOnServer", "didUpdate"}
\* The events the operation fired, in order.
Events == SelectSeq(trace, LAMBDA st : st.k \in EventKinds)

\* The steps that create or remove an entity or change a text.
Mutations ==
    {i \in 1..Len(trace) :
        trace[i].k \in {"createDocument", "closeDocument", "text"}}
\* After step i the cache is discarded before it is built again.
InvalidatedAfter(i) ==
    \E j \in Steps(trace, "invalidateGrammar") :
        j > i /\ \A n \in Steps(trace, "newGrammar") : n < i \/ n > j
\* The files the compiler read during the operation's rebuild.
ReadSet == UNION {trace[i].x : i \in Steps(trace, "check")}
\* The text a client notification delivers.
NotifiedText ==
    IF call.op = "handleOpenClientDocument" THEN call.text
    ELSE IF Len(call.changes) > 0 THEN call.changes[Len(call.changes)]
    ELSE Undef
\* The operation is a client notification that changes its document's text.
ChangesText ==
    /\ call.op \in {"handleOpenClientDocument", "handleUpdateClientDocument"}
    /\ NotifiedText # Undef
    /\ WasRegistered(Target) => pre.documents[Target].text # NotifiedText

-----------------------------------------------------------------------------
\* C1: every entity stored in the Registry is open on the client or on the
\* server: no operation leaves an entity with both flags false registered.
C1_RegisteredIsOpen ==
    \A f \in DOMAIN documents :
        documents[f].isOpenOnClient \/ documents[f].isOpenOnServer

\* A client close cleared the client flag of an entity open on both sides,
\* which stays registered as server-open.
C1_Witness ==
    /\ call.op = "handleCloseClientDocument"
    /\ WasOpenOnClient(Target) /\ WasOpenOnServer(Target)
    /\ Target \in Registered
    /\ ~documents[Target].isOpenOnClient

\* The operation closes one side of an entity that is open on both sides.
ClosesOneOfBoth ==
    /\ call.op \in {"close", "handleCloseClientDocument"}
    /\ WasOpenOnClient(Target) /\ WasOpenOnServer(Target)
\* The operation closes the other side of an entity that was open on both
\* sides and has had one side closed.
ClosesLastSide ==
    /\ Target \in pre.halfClosed
    /\ \/ call.op = "close" /\ WasOpenOnServer(Target)
       \/ call.op = "handleCloseClientDocument" /\ WasOpenOnClient(Target)
\* The entity of the target was created by the file-read callback during
\* the operation's rebuild.
ReadAgain ==
    \E i \in Steps(trace, "createDocument") :
        trace[i].f = Target /\ InCheck(trace, i)

\* C2 as claimed: closing one side of an entity open on both sides leaves
\* it registered; closing the other side too leaves has(id) false.
C2_DualClose ==
    /\ ClosesOneOfBoth => has(Manager, call.id)
    /\ ClosesLastSide => ~has(Manager, call.id)

\* C2 as amended: closing one side of an entity open on both sides leaves
\* it registered, unchanged but for the closed flag; closing the remaining
\* side removes it and fires the closed event, and has(id) is false then
\* unless the rebuild run within that close read the file again, which
\* registers a new server-open entity for it.
C2_DualCloseAmended ==
    /\ ClosesOneOfBoth =>
          /\ has(Manager, call.id)
          /\ documents[Target].text = pre.documents[Target].text
          /\ documents[Target].isOpenOnClient = (call.op = "close")
          /\ documents[Target].isOpenOnServer = (call.op # "close")
    /\ ClosesLastSide =>
          /\ DidTo(trace, "closeDocument", Target)
          /\ DidTo(trace, "didClose", Target)
          /\ has(Manager, call.id) =>
                /\ ReadAgain
                /\ ~documents[Target].isOpenOnClient
                /\ documents[Target].isOpenOnServer

\* The server side of an entity open on both sides was closed through
\* another spelling of its locator, and has(id) still finds it.
C2_Witness ==
    /\ ClosesOneOfBoth
    /\ call.op = "close"
    /\ call.id # Target
    /\ has(Manager, call.id)

\* Step i is taken while an update report is being dispatched.
InReport(i) ==
    \E d \in Steps(trace, "didUpdate") :
        d < i /\ \A e \in Steps(trace, "didUpdate:end") : e < d \/ e > i

\* C3 as claimed: a requestUpdate issued while an update report is in
\* progress is dispatched as a state-updated event once that report has
\* completed.
C3_ReentrantRequestDispatched ==
    \A i \in Steps(trace, "requestUpdate") :
        InReport(i) =>
            \E e \in Steps(trace, "didUpdate:end"),
               d \in Steps(trace, "didUpdate") : i < e /\ e < d

\* The operation ends the suspension: resumeUpdates takes the counter to 0.
EndsSuspension == call.op = "resumeUpdates" /\ pre.updateSuspended = 1

\* C4: while updates are suspended no operation fires a state-updated
\* event; the resumeUpdates that ends a suspension in which one or more
\* client notifications changed a text fires exactly one, and the entity of
\* the last such notification then holds the text it delivered.
C4_Batching ==
    /\ (call # Idle /\ pre.updateSuspended > 0 /\ ~EndsSuspension) =>
          Count("didUpdate") = 0
    /\ (EndsSuspension /\ pre.batch.n >= 1) =>
          /\ Count("didUpdate") = 1
          /\ pre.batch.f # "-" =>
                /\ WasRegistered(pre.batch.f)
                /\ pre.documents[pre.batch.f].text = pre.batch.text
                /\ pre.batch.f \in Registered
                /\ documents[pre.batch.f].text = pre.batch.text

\* A suspension with two or more content changes ends with one event.
C4_Witness ==
    /\ EndsSuspension
    /\ pre.batch.n >= 2
    /\ pre.batch.f # "-"
    /\ Count("didUpdate") = 1

\* C5: with updates not suspended and no report in progress, a client
\* notification that changes its document's text fires exactly one
\* state-updated event, dispatched and completed within the notification.
C5_OneUpdatePerChange ==
    (ChangesText /\ pre.updateSuspended = 0 /\ ~pre.updating) =>
        /\ Count("didUpdate") = 1
        /\ Count("didUpdate:end") = 1
        /\ DidTo(trace, "didChangeContent", Target)

\* A text change whose report ran a rebuild that swept a document away.
C5_Witness ==
    /\ ChangesText /\ pre.updateSuspended = 0
    /\ Did(trace, "sweep:close")
    /\ Count("didUpdate") = 1

\* C6: resumeUpdates reports a pending update exactly when it takes the
\* counter to zero, and then at once; a resume that leaves the counter above
\* zero, or that finds no update requested, fires nothing; and no other
\* operation reports an update that is pending.
C6_NestedSuspension ==
    /\ call.op = "resumeUpdates" =>
          /\ updateSuspended =
                IF pre.updateSuspended > 0 THEN pre.updateSuspended - 1 ELSE 0
          /\ pre.updateSuspended # 1 =>
                /\ Events = <<>>
                /\ updateRequested = pre.updateRequested
          /\ (pre.updateSuspended = 1 /\ ~pre.updateRequested) => Events = <<>>
          /\ (pre.updateSuspended = 1 /\ pre.updateRequested) =>
                /\ Count("didUpdate") = 1
                /\ trace[1].k = "didUpdate"
                /\ ~updateRequested
    /\ (call # Idle /\ pre.updateRequested /\ Did(trace, "didUpdate")) =>
          EndsSuspension

\* A resume inside a nested suspension: the update stays pending.
C6_Witness ==
    /\ call.op = "resumeUpdates"
    /\ pre.updateSuspended = 2
    /\ pre.updateRequested
    /\ updateSuspended = 1
    /\ updateRequested
    /\ Events = <<>>

\* C7 as claimed: every step that creates an entity, removes one or changes
\* a text is followed, within the operation, by the discarding of the cached
\* compilation state, the file-read callback's steps included.
C7_EveryMutationInvalidates ==
    \A i \in Mutations : InvalidatedAfter(i)

\* C7 as amended: the same for every step of open, close and the client
\* notifications (the sweep's close included); the file-read callback
\* creates its entity during the rebuild without discarding the cache.
C7_HandlerMutationInvalidates ==
    \A i \in Mutations : ~InCheck(trace, i) => InvalidatedAfter(i)

\* An operation that changed a text and whose rebuild registered a
\* dependency through the file-read callback.
C7_Witness ==
    /\ \E i \in Mutations : ~InCheck(trace, i) /\ trace[i].k = "text"
    /\ \E i \in Mutations : InCheck(trace, i)

\* C8 as claimed: the roots handed to the compiler at a rebuild, and the
\* value the rootNames getter returns, are the set of the client-open
\* entities.
C8_RootsAreClientOpen ==
    /\ \A i \in Steps(trace, "newGrammar") : trace[i].x = ClientOpen
    /\ call.op = "rootNames" => rootNames = Some(ClientOpen)

\* C9: when a rebuild has finished, a document that was registered only as
\* a dependency read by an earlier rebuild, that is not client-open and that
\* the compiler did not read in this rebuild is no longer registered.
C9_SweepReclaims ==
    Did(trace, "refreshGrammar:end") =>
        \A f \in pre.dependency :
            (f \notin ClientOpen /\ f \notin ReadSet) => f \notin Registered

\* A rebuild that did not read a dependency of an earlier one and swept it.
C9_Witness ==
    /\ Did(trace, "refreshGrammar:end")
    /\ \E f \in pre.dependency :
          /\ f \notin ReadSet
          /\ DidTo(trace, "sweep:close", f)
          /\ f \notin Registered

\* C10 as claimed: close on a tracked entity clears isOpenOnServer; an
\* entity not open on the client is removed and a closed event fires;
\* for an entity open on the client exactly one event fires, the
\* closed-on-server event.
C10_CloseEvents ==
    (call.op = "close" /\ WasRegistered(Target)) =>
        IF WasOpenOnClient(Target)
        THEN /\ Target \in Registered
             /\ ~documents[Target].isOpenOnServer
             /\ Len(Events) = 1
             /\ Events[1].k = "didCloseOnServer"
             /\ Events[1].f = Target
        ELSE /\ DidTo(trace, "closeDocument", Target)
             /\ DidTo(trace, "didClose", Target)

\* A successful open: the native host could read the file.
OpenSucceeds == call.op = "open" /\ call.text # Undef
\* The text the operation finds in its target differs from the one it brings.
TextDiffers ==
    WasRegistered(Target) => pre.documents[Target].text # call.text
\* The events of open: created exactly when the entity is new,
\* closed-on-server exactly when it was not server-open, content-changed
\* followed at once by the update request exactly when the text differs.
OpenEvents ==
    /\ DidTo(trace, "createDocument", Target) <=> ~WasRegistered(Target)
    /\ DidTo(trace, "didOpen", Target) <=> ~WasRegistered(Target)
    /\ Count("didOpen") <= 1
    /\ DidTo(trace, "didCloseOnServer", Target) <=> ~WasOpenOnServer(Target)
    /\ Count("didCloseOnServer") <= 1
    /\ DidTo(trace, "didChangeContent", Target) <=> TextDiffers
    /\ Count("didChangeContent") <= 1
    /\ \A i \in Steps(trace, "didChangeContent") :
          i < Len(trace) /\ trace[i + 1].k = "requestUpdate"
    /\ Did(trace, "requestUpdate") <=> TextDiffers
    /\ ~Did(trace, "didOpenOnServer")

\* C11 as claimed: a successful open creates the entity if absent, leaves it
\* registered with isOpenOnServer true, and fires the created event exactly
\* when the entity is new, the closed-on-server event exactly when it was
\* not server-open before, and the content-changed event followed by an
\* update request exactly when the text differs.
C11_Open ==
    OpenSucceeds =>
        /\ OpenEvents
        /\ Target \in Registered
        /\ documents[Target].isOpenOnServer

\* C11 as amended: the same events; the entity is registered and
\* server-open when open returns unless the rebuild run by the update
\* report of this open swept it (it is not client-open and the compiler did
\* not read it), in which case it is no longer registered.
C11_OpenAmended ==
    OpenSucceeds =>
        /\ OpenEvents
        /\ IF DidTo(trace, "sweep:close", Target)
           THEN /\ Target \notin Registered
                /\ ~WasOpenOnClient(Target)
                /\ Target \notin ReadSet
                /\ Did(trace, "didUpdate")
           ELSE /\ Target \in Registered
                /\ documents[Target].isOpenOnServer
                /\ documents[Target].text = call.text

\* An open that created its entity, reported the update, and whose entity
\* survived the rebuild because a client-open document imports it.
C11_Witness ==
    /\ OpenSucceeds
    /\ ~WasRegistered(Target)
    /\ Did(trace, "didUpdate")
    /\ Target \in Registered
    /\ documents[Target].isOpenOnServer
    /\ ~documents[Target].isOpenOnClient

\* An open (by the client or by the server) of a registered entity that
\* brings the text the entity already has.
SameTextOpen ==
    /\ call.op \in {"open", "handleOpenClientDocument"}
    /\ call.text # Undef
    /\ WasRegistered(Target)
    /\ pre.documents[Target].text = call.text

\* C12: opening a locator whose entity already holds the text brought
\* (client open notification, or open() of an unchanged file) fires no
\* content-changed event, requests no update and leaves the cached
\* compilation state as it is.
C12_SameTextOpenIsQuiet ==
    SameTextOpen =>
        /\ ~Did(trace, "didChangeContent")
        /\ ~Did(trace, "requestUpdate")
        /\ ~Did(trace, "didUpdate")
        /\ ~Did(trace, "invalidateGrammar")
        /\ rootNames = pre.rootNames
        /\ grammar = pre.grammar
        /\ updateRequested = pre.updateRequested
        /\ documents[Target].text = call.text

\* open() through the other spelling of the locator of a client-open
\* entity finds the file unchanged; the cache was built and stays.
C12_Witness ==
    /\ SameTextOpen
    /\ call.op = "open"
    /\ call.id # Target
    /\ ~WasOpenOnServer(Target)
    /\ documents[Target].isOpenOnServer
    /\ pre.rootNames # None
    /\ rootNames = pre.rootNames

\* An open of a file the native host cannot read.
OpenFails == call.op = "open" /\ call.text = Undef

\* C13: open of a file that cannot be read returns undefined and changes
\* nothing: no entity is created, no entity changes, the cache and the
\* pending-update flag stay as they are, and no event fires.
C13_UnreadableOpen ==
    OpenFails =>
        /\ trace = <<Step("open:undefined", Target, {})>>
        /\ Events = <<>>
        /\ documents = pre.documents
        /\ rootNames = pre.rootNames
        /\ grammar = pre.grammar
        /\ updateRequested = pre.updateRequested
        /\ updateSuspended = pre.updateSuspended
        /\ updating = pre.updating

\* A failed open of a file that is not registered, with the cache built
\* and an update pending.
C13_Witness ==
    /\ OpenFails
    /\ ~WasRegistered(Target)
    /\ Target \notin Registered
    /\ pre.rootNames # None
    /\ pre.updateRequested
    /\ updateRequested

SideEvents ==
    {"didOpenOnClient", "didOpenOnServer", "didCloseOnClient",
     "didCloseOnServer"}

\* C14: within an operation the created event comes before every
\* opened-on and closed-on event, and the content-changed event comes
\* before every update request and every state-updated event.
C14_FiringOrder ==
    /\ \A i \in Steps(trace, "didOpen"), j \in 1..Len(trace) :
          trace[j].k \in SideEvents => i < j
    /\ \A c \in Steps(trace, "didChangeContent"), j \in 1..Len(trace) :
          trace[j].k \in {"requestUpdate", "didUpdate"} => c < j

\* An operation that fired the created, a side, and the content-changed
\* event and reported the update.
C14_Witness ==
    /\ Did(trace, "didOpen")
    /\ \E j \in 1..Len(trace) : trace[j].k \in SideEvents
    /\ Did(trace, "didChangeContent")
    /\ Did(trace, "didUpdate")

\* C15: no state-updated event is fired while one is being dispatched,
\* whatever the rebuild started by the subscriber closes and requests.
C15_NoNestedReport ==
    \A d \in Steps(trace, "didUpdate") : ~InReport(d)

\* During a report the sweep closed a document and requested an update.
C15_Witness ==
    /\ Count("didUpdate") = 1
    /\ \E c \in Steps(trace, "sweep:close"), r \in Steps(trace, "requestUpdate") :
          InReport(c) /\ c < r /\ InReport(r)

\* The rebuild of the operation: its roots, the registry when the compiler
\* returned, and the documents its sweep closed.
Roots == UNION {trace[i].x : i \in Steps(trace, "newGrammar")}
AtCheckEnd == UNION {trace[i].x : i \in Steps(trace, "check:end")}
Swept == {trace[i].f : i \in Steps(trace, "sweep:close")}

\* C16: the sweep of a rebuild closes exactly the registered entities that
\* are not client-open and that the compiler did not read in that rebuild,
\* and each of them is removed; no other entity is removed, so when the
\* rebuild has finished every registered entity is client-open or was read.
C16_SweepExact ==
    Did(trace, "refreshGrammar:end") =>
        /\ Swept = AtCheckEnd \ (Roots \cup ReadSet)
        /\ Registered = AtCheckEnd \ Swept
        /\ \A f \in Swept : DidTo(trace, "closeDocument", f)
        /\ \A f \in Registered : f \in ClientOpen \/ f \in ReadSet

\* A rebuild whose sweep closed and removed a document that is neither
\* client-open nor read, and kept the client-open root.
C16_Witness ==
    /\ Did(trace, "refreshGrammar:end")
    /\ Swept # {}
    /\ Swept \cap Registered = {}
    /\ ClientOpen # {}
    /\ Registered = ClientOpen

\* C17 as claimed: when a compilation state was built before the operation
\* and the operation discards and rebuilds it, the compiler constructor
\* receives the earlier state as its hint.
C17_HintIsPrevious ==
    pre.grammar # None =>
        \A n \in Steps(trace, "newGrammar") : trace[n].f = "oldGrammar"

\* The last change record of a client change notification.
LastChange == call.changes[Len(call.changes)]

\* C18: a client change notification with one or more change records
\* leaves its entity client-open with the text of the last record and
\* fires at most one content-changed event, and that only when the text
\* differs; a notification without a record changes nothing at all.
C18_LastChangeWins ==
    call.op = "handleUpdateClientDocument" =>
        IF Len(call.changes) = 0
        THEN /\ trace = <<>>
             /\ documents = pre.documents
             /\ rootNames = pre.rootNames
             /\ grammar = pre.grammar
             /\ updateRequested = pre.updateRequested
        ELSE /\ Target \in Registered
             /\ documents[Target].text = LastChange
             /\ documents[Target].isOpenOnClient
             /\ Count("didChangeContent") <= 1
             /\ Did(trace, "didChangeContent") <=>
                   (WasRegistered(Target) =>
                       pre.documents[Target].text # LastChange)
             /\ Count("text") =
                   (IF Did(trace, "didChangeContent") THEN 1 ELSE 0)
                   + Cardinality({i \in Steps(trace, "text") :
                                     InCheck(trace, i)})

\* A notification with two records of different texts for an entity that
\* holds the text of the first: the entity ends with the text of the second
\* and one content-changed event fired.
C18_Witness ==
    /\ call.op = "handleUpdateClientDocument"
    /\ Len(call.changes) = 2
    /\ call.changes[1] # call.changes[2]
    /\ WasRegistered(Target)
    /\ pre.documents[Target].text = call.changes[1]
    /\ documents[Target].text = call.changes[2]
    /\ Count("didChangeContent") = 1

\* C19 as claimed: when refreshGrammar returns the cached root list and
\* grammar are set, so the accessors return a built compilation state.
C19_AccessorsDefined ==
    /\ Did(trace, "refreshGrammar:end") =>
          rootNames # None /\ grammar # None
    /\ call.op \in {"rootNames", "grammar", "sourceFiles"} =>
          /\ rootNames # None /\ grammar # None
          /\ ~Did(trace, "TypeError")

\* C20 as claimed: with no operation in progress, a cached root list is
\* the set of the client-open entities.
C20_CachedRootsCurrent ==
    (call = Idle /\ rootNames # None) => rootNames = Some(ClientOpen)

\* The operation cleared the flag of f: it was set before and the entity is
\* gone or has it unset now.
ClearedClientFlag(f) ==
    /\ WasOpenOnClient(f)
    /\ f \in Registered => ~documents[f].isOpenOnClient
ClearedServerFlag(f) ==
    /\ WasOpenOnServer(f)
    /\ f \in Registered => ~documents[f].isOpenOnServer

\* C21 as claimed: a closed-on-client (closed-on-server) event is fired for
\* an entity only by an operation that cleared the entity's isOpenOnClient
\* (isOpenOnServer) flag.
C21_CloseEventsMeanClosed ==
    /\ \A i \in Steps(trace, "didCloseOnClient") :
          ClearedClientFlag(trace[i].f)
    /\ \A i \in Steps(trace, "didCloseOnServer") :
          ClearedServerFlag(trace[i].f)

\* The operation is a client notification that delivers a text for f.
DeliversText(f) ==
    /\ call.op \in {"handleOpenClientDocument", "handleUpdateClientDocument"}
    /\ NotifiedText # Undef
    /\ f = Target

\* C22 as claimed: a client notification leaves its entity with the text
\* it delivered, and an entity that is client-open before and after any
\* other operation keeps its text.
C22_ClientTextIsAuthoritative ==
    \A f \in ClientOpen :
        IF DeliversText(f) THEN documents[f].text = NotifiedText
        ELSE (call # Idle /\ WasOpenOnClient(f)) =>
                documents[f].text = pre.documents[f].text

\* C23: when an operation has ended, by returning or by a fault of the
\* compiler or of the subscriber, _updating is false: every report and
\* every rebuild the operation started has run its finally block.
C23_UpdatingRestored ==
    /\ updating = FALSE
    /\ Count("didUpdate") = Count("didUpdate:end")
    /\ Count("newGrammar")
          = Count("refreshGrammar:end") + Count("refreshGrammar:fault")
    /\ Did(trace, "check:fault") => Did(trace, "refreshGrammar:fault")

\* The grammar getter rebuilt the grammar outside a report and the
\* compiler raised a fault.
C23_Witness ==
    /\ call.op = "grammar"
    /\ ~pre.updating
    /\ Did(trace, "check:fault")
    /\ Did(trace, "refreshGrammar:fault")
    /\ ~updating

\* The manager the operation started on.
PreManager ==
    [documents |-> pre.documents, rootNames |-> pre.rootNames,
     grammar |-> pre.grammar, updateSuspended |-> pre.updateSuspended,
     updateRequested |-> pre.updateRequested, updating |-> pre.updating,
     trace |-> <<>>]
\* What the collaborators did during the operation, read off its steps.
EnvOf ==
    Env(ReadSet,
        [f \in Files |->
            IF /\ f \in Registered
               /\ \E i \in Steps(trace, "createDocument") :
                      trace[i].f = f /\ InCheck(trace, i)
            THEN documents[f].text ELSE Undef],
        Did(trace, "check:fault"))
\* A client change notification, with a change record, for a locator
\* without an entity.
UpdatesUnknown ==
    /\ call.op = "handleUpdateClientDocument"
    /\ Len(call.changes) > 0
    /\ ~WasRegistered(Target)
\* What a client open notification with the same text does from the same
\* state with the same collaborators.
AsClientOpen ==
    handleOpenClientDocument(PreManager, call.id, LastChange, EnvOf)

\* C24: a client change notification for a locator without an entity
\* creates the entity, client-open and with the text of the notification,
\* fires created, opened-on-client and content-changed in that order, and
\* does step for step what a client open notification with that text does.
C24_UpdateOfUnknownIsOpen ==
    UpdatesUnknown =>
        /\ Target \in Registered
        /\ documents[Target].isOpenOnClient
        /\ ~documents[Target].isOpenOnServer
        /\ documents[Target].text = LastChange
        /\ Len(Events) >= 3
        /\ Events[1] = Step("didOpen", Target, {})
        /\ Events[2] = Step("didOpenOnClient", Target, {})
        /\ Events[3] = Step("didChangeContent", Target, {})
        /\ AsClientOpen.trace = trace
        /\ AsClientOpen.documents = documents
        /\ AsClientOpen.rootNames = rootNames
        /\ AsClientOpen.grammar = grammar
        /\ AsClientOpen.updateRequested = updateRequested
        /\ AsClientOpen.updateSuspended = updateSuspended

\* Such a notification with two different records, through the other
\* spelling of the locator, whose report rebuilt the grammar and registered
\* a dependency.
C24_Witness ==
    /\ UpdatesUnknown
    /\ call.id # Target
    /\ Len(call.changes) = 2
    /\ call.changes[1] # call.changes[2]
    /\ documents[Target].text = call.changes[2]
    /\ Did(trace, "didUpdate")
    /\ \E i \in Steps(trace, "createDocument") : InCheck(trace, i)

====
